---- MODULE Spec2Model ----
(***************************************************************************)
(* Model of the secure OCR gateway (src/secure_ocr_gateway.py): API-key   *)
(* authentication, the sliding-window rate limiter, request validation    *)
(* and the proxying handlers with their usage accounting.                 *)
(*                                                                         *)
(* Time is counted in whole seconds.  Spec handles one request at a time   *)
(* (each handler is one step); SpecConc interleaves the statements of the  *)
(* handlers of two worker threads, as the threaded Flask server does.      *)
(* SpecRelay serves admitted requests against every behaviour of the       *)
(* upstream, SpecHealth adds GET /health, SpecValidate runs the two        *)
(* validators on their own.  SpecQuota serves a key whose limit is 0,      *)
(* SpecSkew lets the wall clock run back.  SpecBuild is main of the RunPod *)
(* build script (src/scripts/runpod_build_automation.py); SpecOlm is the   *)
(* olmOCR server (src/olmocr_server.py) with its lazy initialisation.      *)
(***************************************************************************)
EXTENDS Integers, Sequences, FiniteSets, TLC

VARIABLES rate_limit_storage, clock, resp, served, admitted, threads,
          probe, build, olm

vars ==
  <<rate_limit_storage, clock, resp, served, admitted, threads, probe, build,
    olm>>

----------------------------------------------------------------------------
(* Program constants *)

WINDOW == 86400

DEFAULT_LIMIT == 50

MAX_BATCH == 10

MAX_URL_LEN == 2048

MAX_B64_LEN == 15728640

(* Bounds of the model *)

\* daily_limit of the "pro" key (1000 in the shipped configuration)
LimitPro == 2

\* daily_limit of the "free" key (50 in the shipped configuration)
LimitFree == 1

\* requests handled in one behaviour
MaxRequests == 3

\* polls of wait_for_pod before its timeout has passed (900 seconds at one
\* poll every 10 seconds in the script)
MaxPolls == 3

----------------------------------------------------------------------------
(* Configuration *)

ProKey == "ios_app_key_123xyz"

FreeKey == "test_key_456abc"

\* A key that the operator has registered with a daily limit of 0.  The
\* shipped registry has no such entry; it is a configuration the registry
\* allows, and no request of Spec or SpecConc uses it.
ZeroKey == "suspended_key_000"

API_KEYS ==
  (ProKey :> [user |-> "ios_app", tier |-> "pro", daily_limit |-> LimitPro]) @@
  (FreeKey :> [user |-> "test_user", tier |-> "free", daily_limit |-> LimitFree]) @@
  (ZeroKey :> [user |-> "suspended", tier |-> "free", daily_limit |-> 0])

\* The X-API-Key header of a request: <<>> when the header is absent,
\* <<s>> when it is present with value s.
Headers == {<<>>, <<"">>, <<"unknown_key">>, <<ProKey>>, <<FreeKey>>}

\* The instants the clock takes: the last second inside a window that
\* started at 0 or at WINDOW - 1, and the first second outside it.
Instants == {0, WINDOW - 1, WINDOW, 2 * WINDOW - 2, 2 * WINDOW - 1}

\* Outcomes of the upstream call: a parsable answer with success true or
\* false, a timeout, or any other failure (connection error, bad body).
Upstream == {"ok", "fail", "timeout", "error"}

\* JSON bodies of POST /api/v1/ocr.  kind: "null" (no object or an empty
\* one), "object"; image: absent, a non-string value, or a string that is
\* URL-prefixed or not, with its length.
Str(url, len) == [type |-> "str", url |-> url, len |-> len]

NoImage == [type |-> "absent", url |-> FALSE, len |-> 0]

NonStr == [type |-> "other", url |-> FALSE, len |-> 0]

OcrBodies ==
  {[kind |-> "null", image |-> NoImage]} \cup
  {[kind |-> "object", image |-> i] :
     i \in {NoImage, NonStr,
            Str(TRUE, MAX_URL_LEN), Str(TRUE, MAX_URL_LEN + 1),
            Str(FALSE, MAX_B64_LEN), Str(FALSE, MAX_B64_LEN + 1)}}

\* JSON bodies of POST /api/v1/ocr/batch.  images: absent, a non-list value
\* or a list of n entries, n around the quota and around the batch limit.
BatchBodies ==
  {[kind |-> "null", images |-> "absent", n |-> 0],
   [kind |-> "object", images |-> "absent", n |-> 0],
   [kind |-> "object", images |-> "other", n |-> 0]} \cup
  {[kind |-> "object", images |-> "list", n |-> n] :
     n \in (0..(LimitPro + 1)) \cup {MAX_BATCH, MAX_BATCH + 1}}

----------------------------------------------------------------------------
(* Responses *)

NoUsage == [present |-> FALSE, requests_used |-> 0, daily_limit |-> 0,
            requests_remaining |-> 0, tier |-> ""]

Usage(used, limit, tier) ==
  [present |-> TRUE, requests_used |-> used, daily_limit |-> limit,
   requests_remaining |-> 0, tier |-> tier]

\* The body of a response that the gateway builds itself.
OwnBody == [kind |-> "gateway"]

\* A response: status code, the success flag and error string of the body,
\* the usage block, and whether the upstream was contacted for it; body is
\* the rest of the body and outcome what the upstream call did, "none"
\* when there was no call.
Response(status, success, error, usage, contacted) ==
  [status |-> status, success |-> success, error |-> error,
   usage |-> usage, upstream |-> contacted, body |-> OwnBody,
   outcome |-> "none"]

----------------------------------------------------------------------------
(* Rate limiter *)

\* The pruning with the age compared by <= instead of <.
PruneOffByOne(list, now) == SelectSeq(list, LAMBDA t : now - t <= WINDOW)

\* A pruning that also drops the entries recorded later than now.
Prune_NonNegativeAge(list, now) ==
  SelectSeq(list, LAMBDA t : 0 <= now - t /\ now - t < WINDOW)

\* The list comprehension of check_rate_limit: the entries inside the window.
Prune(list, now) == SelectSeq(list, LAMBDA t : now - t < WINDOW)

\* The limit read with `or`, which takes a limit of 0 for a missing one.
DailyLimit_ZeroIsMissing(api_key) ==
  IF api_key \in DOMAIN API_KEYS /\ API_KEYS[api_key].daily_limit # 0
  THEN API_KEYS[api_key].daily_limit
  ELSE DEFAULT_LIMIT

DailyLimit(api_key) ==
  IF api_key \in DOMAIN API_KEYS THEN API_KEYS[api_key].daily_limit
  ELSE DEFAULT_LIMIT

Ensure(store, api_key) ==
  IF api_key \in DOMAIN store THEN store ELSE store @@ (api_key :> <<>>)

\* check_rate_limit with the limit compared by > instead of >=.
check_rate_limit_OffByOne(store, api_key, now) ==
  LET daily_limit == DailyLimit(api_key)
      s1 == Ensure(store, api_key)
      s2 == [s1 EXCEPT ![api_key] = Prune(@, now)]
      s3 == [s2 EXCEPT ![api_key] = Append(@, now)]
  IN  IF Len(s2[api_key]) > daily_limit
      THEN [allowed |-> FALSE, used |-> Len(s2[api_key]),
            limit |-> daily_limit, store |-> s2]
      ELSE [allowed |-> TRUE, used |-> Len(s3[api_key]),
            limit |-> daily_limit, store |-> s3]

\* check_rate_limit pruning the list of every key it finds in the storage.
check_rate_limit_PruneAll(store, api_key, now) ==
  LET daily_limit == DailyLimit(api_key)
      s1 == Ensure(store, api_key)
      s2 == [k \in DOMAIN s1 |-> Prune(s1[k], now)]
      s3 == [s2 EXCEPT ![api_key] = Append(@, now)]
  IN  IF Len(s2[api_key]) >= daily_limit
      THEN [allowed |-> FALSE, used |-> Len(s2[api_key]),
            limit |-> daily_limit, store |-> s2]
      ELSE [allowed |-> TRUE, used |-> Len(s3[api_key]),
            limit |-> daily_limit, store |-> s3]

\* check_rate_limit comparing the limit with the list as stored, expired
\* entries included.
check_rate_limit_TestBeforePrune(store, api_key, now) ==
  LET daily_limit == DailyLimit(api_key)
      s1 == Ensure(store, api_key)
      s2 == [s1 EXCEPT ![api_key] = Prune(@, now)]
      s3 == [s2 EXCEPT ![api_key] = Append(@, now)]
  IN  IF Len(s1[api_key]) >= daily_limit
      THEN [allowed |-> FALSE, used |-> Len(s2[api_key]),
            limit |-> daily_limit, store |-> s2]
      ELSE [allowed |-> TRUE, used |-> Len(s3[api_key]),
            limit |-> daily_limit, store |-> s3]

\* check_rate_limit: the new storage and the tuple (allowed, used, limit).
check_rate_limit(store, api_key, now) ==
  LET daily_limit == DailyLimit(api_key)
      s1 == Ensure(store, api_key)
      s2 == [s1 EXCEPT ![api_key] = Prune(@, now)]
      s3 == [s2 EXCEPT ![api_key] = Append(@, now)]
  IN  IF Len(s2[api_key]) >= daily_limit
      THEN [allowed |-> FALSE, used |-> Len(s2[api_key]),
            limit |-> daily_limit, store |-> s2]
      ELSE [allowed |-> TRUE, used |-> Len(s3[api_key]),
            limit |-> daily_limit, store |-> s3]

----------------------------------------------------------------------------
(* Validation *)

\* validate_ocr_request refusing a URL of exactly 2048 characters.
validate_ocr_request_UrlOffByOne(data) ==
  IF data.kind = "null" THEN [valid |-> FALSE, error |-> "No JSON data provided"]
  ELSE IF data.image.type = "absent"
  THEN [valid |-> FALSE, error |-> "Missing 'image' field"]
  ELSE IF data.image.type = "str"
  THEN IF data.image.url
       THEN IF data.image.len >= MAX_URL_LEN
            THEN [valid |-> FALSE, error |-> "Image URL too long"]
            ELSE [valid |-> TRUE, error |-> ""]
       ELSE IF data.image.len > MAX_B64_LEN
            THEN [valid |-> FALSE, error |-> "Image data too large"]
            ELSE [valid |-> TRUE, error |-> ""]
  ELSE [valid |-> FALSE, error |-> "Invalid image format"]

validate_ocr_request(data) ==
  IF data.kind = "null" THEN [valid |-> FALSE, error |-> "No JSON data provided"]
  ELSE IF data.image.type = "absent"
  THEN [valid |-> FALSE, error |-> "Missing 'image' field"]
  ELSE IF data.image.type = "str"
  THEN IF data.image.url
       THEN IF data.image.len > MAX_URL_LEN
            THEN [valid |-> FALSE, error |-> "Image URL too long"]
            ELSE [valid |-> TRUE, error |-> ""]
       ELSE IF data.image.len > MAX_B64_LEN
            THEN [valid |-> FALSE, error |-> "Image data too large"]
            ELSE [valid |-> TRUE, error |-> ""]
  ELSE [valid |-> FALSE, error |-> "Invalid image format"]

\* validate_batch_request testing the length before the type.
validate_batch_request_SizeFirst(data) ==
  IF data.kind = "null" THEN [valid |-> FALSE, error |-> "No JSON data provided"]
  ELSE IF data.images = "absent"
  THEN [valid |-> FALSE, error |-> "Missing 'images' field"]
  ELSE IF data.n = 0
  THEN [valid |-> FALSE, error |-> "Empty images array"]
  ELSE IF data.n > MAX_BATCH
  THEN [valid |-> FALSE, error |-> "Maximum 10 images per batch"]
  ELSE IF data.images # "list"
  THEN [valid |-> FALSE, error |-> "'images' must be an array"]
  ELSE [valid |-> TRUE, error |-> ""]

validate_batch_request(data) ==
  IF data.kind = "null" THEN [valid |-> FALSE, error |-> "No JSON data provided"]
  ELSE IF data.images = "absent"
  THEN [valid |-> FALSE, error |-> "Missing 'images' field"]
  ELSE IF data.images # "list"
  THEN [valid |-> FALSE, error |-> "'images' must be an array"]
  ELSE IF data.n = 0
  THEN [valid |-> FALSE, error |-> "Empty images array"]
  ELSE IF data.n > MAX_BATCH
  THEN [valid |-> FALSE, error |-> "Maximum 10 images per batch"]
  ELSE [valid |-> TRUE, error |-> ""]

----------------------------------------------------------------------------
(* Authentication *)

\* The decorator's checks: 401 for no or an empty key, 403 for a key that
\* is not in the registry; otherwise the handler runs with the key.
require_api_key(header) ==
  IF header = <<>> \/ header[1] = ""
  THEN [ok |-> FALSE,
        resp |-> Response(401, FALSE,
                          "Missing API key. Include X-API-Key header.",
                          NoUsage, FALSE)]
  ELSE IF header[1] \notin DOMAIN API_KEYS
  THEN [ok |-> FALSE,
        resp |-> Response(403, FALSE, "Invalid API key", NoUsage, FALSE)]
  ELSE [ok |-> TRUE, resp |-> Response(200, TRUE, "", NoUsage, FALSE)]

----------------------------------------------------------------------------
(* Handlers: the new storage and the response *)

\* What the upstream answers when its call completes with a JSON object:
\* the status code, the success entry of the object (<<>> when it has
\* none), its error entry and the rest of the object.  "ok" and "fail"
\* are answers of the OCR server, "echo" is the request body sent back.
UpstreamAnswer(up, data) ==
  CASE up = "ok" ->
         [status |-> 200, success |-> <<TRUE>>, error |-> "",
          body |-> [kind |-> "result"]]
    [] up = "fail" ->
         [status |-> 503, success |-> <<FALSE>>,
          error |-> "DeepSeek-OCR model not loaded. Please check server logs.",
          body |-> [kind |-> "failure"]]
    [] OTHER ->
         [status |-> 200, success |-> <<>>, error |-> "", body |-> data]

\* jsonify(result), response.status_code: the upstream answer with the
\* usage block set when inject holds.
Relay(up, a, usage, inject) ==
  [status |-> a.status,
   success |-> IF a.success = <<>> THEN "absent" ELSE a.success[1],
   error |-> a.error,
   usage |-> IF inject THEN usage ELSE NoUsage,
   upstream |-> TRUE, body |-> a.body, outcome |-> up]

\* The upstream outcomes that are an answer with a JSON object as body.
Answers == {"ok", "fail", "echo"}

\* The try block with the usage block added to every relayed answer.
Forward_AlwaysUsage(up, data, usage, timeoutMsg) ==
  CASE up \in Answers -> Relay(up, UpstreamAnswer(up, data), usage, TRUE)
    [] up = "timeout" ->
         [Response(504, FALSE, timeoutMsg, NoUsage, TRUE) EXCEPT !.outcome = up]
    [] OTHER ->
         [Response(500, FALSE, "Internal server error", NoUsage, TRUE)
            EXCEPT !.outcome = up]

\* The try block with the generic handler placed before the timeout one.
Forward_GenericFirst(up, data, usage, timeoutMsg) ==
  CASE up \in Answers ->
         LET a == UpstreamAnswer(up, data)
         IN  Relay(up, a, usage, a.success = <<TRUE>>)
    [] OTHER ->
         [Response(500, FALSE, "Internal server error", NoUsage, TRUE)
            EXCEPT !.outcome = up]

\* The try block of a handler: the answer relayed from an upstream call
\* that completed, or the 504/500 of one that did not.  usage is added to
\* an upstream answer only when that answer has success true.
Forward(up, data, usage, timeoutMsg) ==
  CASE up \in Answers ->
         LET a == UpstreamAnswer(up, data)
         IN  Relay(up, a, usage, a.success = <<TRUE>>)
    [] up = "timeout" ->
         [Response(504, FALSE, timeoutMsg, NoUsage, TRUE) EXCEPT !.outcome = up]
    [] OTHER ->
         [Response(500, FALSE, "Internal server error", NoUsage, TRUE)
            EXCEPT !.outcome = up]

\* proxy_ocr giving the unit back when the upstream call times out.
proxy_ocr_RefundOnTimeout(store, api_key, data, now, up) ==
  LET rl == check_rate_limit(store, api_key, now)
      v == validate_ocr_request(data)
      back == [rl.store EXCEPT ![api_key] = SubSeq(@, 1, Len(@) - 1)]
  IN  IF ~rl.allowed
      THEN [store |-> rl.store,
            resp |-> Response(429, FALSE, "Rate limit exceeded",
                              Usage(rl.used, rl.limit, ""), FALSE)]
      ELSE IF ~v.valid
      THEN [store |-> rl.store,
            resp |-> Response(400, FALSE, v.error, NoUsage, FALSE)]
      ELSE [store |-> IF up = "timeout" THEN back ELSE rl.store,
            resp |-> Forward(up, data, Usage(rl.used, rl.limit, API_KEYS[api_key].tier),
                             "OCR request timed out")]

\* proxy_ocr attaching the usage block to its 400 answers.
proxy_ocr_UsageOn400(store, api_key, data, now, up) ==
  LET rl == check_rate_limit(store, api_key, now)
      v == validate_ocr_request(data)
  IN  IF ~rl.allowed
      THEN [store |-> rl.store,
            resp |-> Response(429, FALSE, "Rate limit exceeded",
                              Usage(rl.used, rl.limit, ""), FALSE)]
      ELSE IF ~v.valid
      THEN [store |-> rl.store,
            resp |-> Response(400, FALSE, v.error,
                              Usage(rl.used, rl.limit, ""), FALSE)]
      ELSE [store |-> rl.store,
            resp |-> Forward(up, data, Usage(rl.used, rl.limit, API_KEYS[api_key].tier),
                             "OCR request timed out")]

\* proxy_ocr forwarding the body before it validates it.
proxy_ocr_ForwardFirst(store, api_key, data, now, up) ==
  LET rl == check_rate_limit(store, api_key, now)
      v == validate_ocr_request(data)
  IN  IF ~rl.allowed
      THEN [store |-> rl.store,
            resp |-> Response(429, FALSE, "Rate limit exceeded",
                              Usage(rl.used, rl.limit, ""), FALSE)]
      ELSE IF ~v.valid
      THEN [store |-> rl.store,
            resp |-> Response(400, FALSE, v.error, NoUsage, TRUE)]
      ELSE [store |-> rl.store,
            resp |-> Forward(up, data, Usage(rl.used, rl.limit, API_KEYS[api_key].tier),
                             "OCR request timed out")]

proxy_ocr(store, api_key, data, now, up) ==
  LET rl == check_rate_limit(store, api_key, now)
      v == validate_ocr_request(data)
  IN  IF ~rl.allowed
      THEN [store |-> rl.store,
            resp |-> Response(429, FALSE, "Rate limit exceeded",
                              Usage(rl.used, rl.limit, ""), FALSE)]
      ELSE IF ~v.valid
      THEN [store |-> rl.store,
            resp |-> Response(400, FALSE, v.error, NoUsage, FALSE)]
      ELSE [store |-> rl.store,
            resp |-> Forward(up, data, Usage(rl.used, rl.limit, API_KEYS[api_key].tier),
                             "OCR request timed out")]

\* The loop of proxy_batch_ocr that records the batch: n appends.
RECURSIVE AppendN(_, _, _)
AppendN(list, t, n) == IF n = 0 THEN list ELSE AppendN(Append(list, t), t, n - 1)

\* proxy_batch_ocr comparing the batch size alone with the limit.
proxy_batch_ocr_IgnoreUsed(store, api_key, data, now, up) ==
  LET v == validate_batch_request(data)
      num_images == data.n
      rl == check_rate_limit(store, api_key, now)
      s4 == [rl.store EXCEPT ![api_key] = AppendN(@, now, num_images)]
  IN  IF ~v.valid
      THEN [store |-> store,
            resp |-> Response(400, FALSE, v.error, NoUsage, FALSE)]
      ELSE IF num_images > rl.limit
      THEN [store |-> rl.store,
            resp |-> Response(429, FALSE, "Insufficient quota",
                              Usage(rl.used, rl.limit, ""), FALSE)]
      ELSE [store |-> s4,
            resp |-> Forward(up, data, Usage(rl.used + num_images, rl.limit,
                                       API_KEYS[api_key].tier),
                             "Batch OCR request timed out")]

\* proxy_batch_ocr asking the rate limiter before it validates the body.
proxy_batch_ocr_LimitFirst(store, api_key, data, now, up) ==
  LET v == validate_batch_request(data)
      num_images == data.n
      rl == check_rate_limit(store, api_key, now)
      s4 == [rl.store EXCEPT ![api_key] = AppendN(@, now, num_images)]
  IN  IF ~v.valid
      THEN [store |-> rl.store,
            resp |-> Response(400, FALSE, v.error, NoUsage, FALSE)]
      ELSE IF rl.used + num_images > rl.limit
      THEN [store |-> rl.store,
            resp |-> Response(429, FALSE, "Insufficient quota",
                              Usage(rl.used, rl.limit, ""), FALSE)]
      ELSE [store |-> s4,
            resp |-> Forward(up, data, Usage(rl.used + num_images, rl.limit,
                                       API_KEYS[api_key].tier),
                             "Batch OCR request timed out")]

proxy_batch_ocr(store, api_key, data, now, up) ==
  LET v == validate_batch_request(data)
      num_images == data.n
      rl == check_rate_limit(store, api_key, now)
      s4 == [rl.store EXCEPT ![api_key] = AppendN(@, now, num_images)]
  IN  IF ~v.valid
      THEN [store |-> store,
            resp |-> Response(400, FALSE, v.error, NoUsage, FALSE)]
      ELSE IF rl.used + num_images > rl.limit
      THEN [store |-> rl.store,
            resp |-> Response(429, FALSE, "Insufficient quota",
                              Usage(rl.used, rl.limit, ""), FALSE)]
      ELSE [store |-> s4,
            resp |-> Forward(up, data, Usage(rl.used + num_images, rl.limit,
                                       API_KEYS[api_key].tier),
                             "Batch OCR request timed out")]

\* The count of get_usage with the age test turned round.
UsageCount_Inverted(store, api_key, now) ==
  IF api_key \in DOMAIN store
  THEN Len(SelectSeq(store[api_key], LAMBDA t : now - t > WINDOW))
  ELSE 0

\* The list comprehension of get_usage, over the stored list or [].
UsageCount(store, api_key, now) ==
  IF api_key \in DOMAIN store
  THEN Len(SelectSeq(store[api_key], LAMBDA t : now - t < WINDOW))
  ELSE 0

\* get_usage sharing the pruning of check_rate_limit: it creates the
\* entry of the key and writes the pruned list back.
get_usage_Pruning(store, api_key, now) ==
  LET s1 == Ensure(store, api_key)
      s2 == [s1 EXCEPT ![api_key] = Prune(@, now)]
      used == Len(s2[api_key])
      user_info == API_KEYS[api_key]
  IN  [store |-> s2,
       resp |-> Response(200, TRUE, "",
                  [present |-> TRUE, requests_used |-> used,
                   daily_limit |-> user_info.daily_limit,
                   requests_remaining |-> user_info.daily_limit - used,
                   tier |-> user_info.tier],
                  FALSE)]

get_usage(store, api_key, now) ==
  LET used == UsageCount(store, api_key, now)
      user_info == API_KEYS[api_key]
  IN  [store |-> store,
       resp |-> Response(200, TRUE, "",
                  [present |-> TRUE, requests_used |-> used,
                   daily_limit |-> user_info.daily_limit,
                   requests_remaining |-> user_info.daily_limit - used,
                   tier |-> user_info.tier],
                  FALSE)]

\* A request to a protected endpoint: the decorator, then the handler.
Endpoints == {"ocr", "batch", "usage"}

\* The rate limiter placed in front of the decorator: every request that
\* presents a key is counted before the key is looked up.
Serve_LimitBeforeAuth(ep, header, data, now, up, store) ==
  LET auth == require_api_key(header)
      counted == IF header = <<>> THEN store
                 ELSE check_rate_limit(store, header[1], now).store
  IN  IF ~auth.ok THEN [store |-> counted, resp |-> auth.resp]
      ELSE CASE ep = "ocr" -> proxy_ocr(store, header[1], data, now, up)
             [] ep = "batch" -> proxy_batch_ocr(store, header[1], data, now, up)
             [] OTHER -> get_usage(store, header[1], now)

Serve(ep, header, data, now, up, store) ==
  LET auth == require_api_key(header)
  IN  IF ~auth.ok THEN [store |-> store, resp |-> auth.resp]
      ELSE CASE ep = "ocr" -> proxy_ocr(store, header[1], data, now, up)
             [] ep = "batch" -> proxy_batch_ocr(store, header[1], data, now, up)
             [] OTHER -> get_usage(store, header[1], now)

\* What GET {OCR_SERVER_URL}/health does: no connection, a timeout, an
\* answer with a status other than 200, or a 200 answer whose body is an
\* object with status 'ok' (model loaded) or 'error' (model not loaded),
\* an object with no status entry, not JSON at all, or a JSON value that
\* is not an object.
HealthUpstream ==
  {"unreachable", "timeout", "non200", "ok", "loading", "nostatus",
   "unparsable", "array"}

\* ocr_status after the try/except of health: the parsed body of a 200
\* answer, or the dict that stands for an error.  status is <<>> when the
\* dict has no such entry.
ocr_status(up) ==
  CASE up \in {"unreachable", "timeout", "unparsable"} ->
         [kind |-> "object", status |-> <<"error">>]
    [] up = "non200" -> [kind |-> "object", status |-> <<"error">>]
    [] up = "ok" -> [kind |-> "object", status |-> <<"ok">>]
    [] up = "loading" -> [kind |-> "object", status |-> <<"error">>]
    [] up = "nostatus" -> [kind |-> "object", status |-> <<>>]
    [] OTHER -> [kind |-> "array", status |-> <<>>]

\* The body of a health answer.
HealthBody(backend) ==
  [kind |-> "health", status |-> "ok", ocr_backend |-> backend]

\* health: ocr_status.get('status', 'unknown') is evaluated after the
\* try/except, so on a value that has no get method it raises and the
\* request ends in the handler of error 500.
health(up) ==
  LET st == ocr_status(up)
  IN  IF st.kind # "object"
      THEN [Response(500, FALSE, "Internal server error", NoUsage, TRUE)
              EXCEPT !.outcome = up]
      ELSE [Response(200, "absent", "", NoUsage, TRUE)
              EXCEPT !.outcome = up,
                     !.body = HealthBody(IF st.status = <<>> THEN "unknown"
                                         ELSE st.status[1])]

----------------------------------------------------------------------------
(* State *)

\* A worker thread: where it stands in its handler (the line it executes
\* next) and the handler's locals.
Idle ==
  [pc |-> "idle", ep |-> "none", key |-> "", n |-> 0, now |-> 0,
   tmp |-> <<>>, allowed |-> FALSE, used |-> 0, left |-> 0]

Threads == {1, 2}

NoBody == [kind |-> "null", image |-> NoImage]

NoBatch == [kind |-> "null", images |-> "absent", n |-> 0]

\* The last request handled (endpoint, X-API-Key header, body) and its
\* response.
NoResponse ==
  [ep |-> "none", header |-> <<>>, data |-> NoBody,
   r |-> Response(0, FALSE, "", NoUsage, FALSE)]

\* No validator call under way.
NoProbe == [fn |-> "none", data |-> NoBody, done |-> FALSE,
            valid |-> FALSE, error |-> ""]

\* The build script before main runs: the locals of main (pod_id, ssh,
\* success, private_key_file), the locals of wait_for_pod (the polls made,
\* status, public_ip, "unbound" before their first assignment), the
\* exception in flight, the pod at the provider, the calls of
\* terminate_pod made so far and the exit code of the process.
NotStarted ==
  [pc |-> "start", pod_id |-> <<>>, ssh |-> FALSE, success |-> FALSE,
   private_key_file |-> FALSE, polls |-> 0, status |-> "unbound",
   public_ip |-> "unbound", raised |-> "none", pod |-> "none",
   terminated |-> <<>>, exit |-> <<>>, waited |-> "pending"]

\* olmocr_server.py: the globals model, processor and device (FALSE and
\* "None" stand for None), the number of requests served, and of the last
\* request: what became of the initialisation, the body, the answer.
NotLoaded ==
  [model |-> FALSE, processor |-> FALSE, device |-> "None", requests |-> 0,
   init |-> "none", data |-> "none", status |-> 0, error |-> ""]

Init ==
  /\ rate_limit_storage = <<>>
  /\ clock = 0
  /\ resp = NoResponse
  /\ served = 0
  /\ admitted = <<>>
  /\ threads = [i \in Threads |-> Idle]
  /\ probe = NoProbe
  /\ build = NotStarted
  /\ olm = NotLoaded

\* The log of admissions as the clients see them: a single request that
\* is not answered 401, 403 or 429 took one unit, a batch request of n
\* images that is not answered 400, 401, 403 or 429 took n units.
Logged(ep, header, data, r, now) ==
  IF ep = "ocr" /\ r.status \notin {401, 403, 429}
  THEN <<[key |-> header[1], t |-> now, cost |-> 1, ep |-> ep]>>
  ELSE IF ep = "batch" /\ r.status \notin {400, 401, 403, 429}
  THEN <<[key |-> header[1], t |-> now, cost |-> data.n, ep |-> ep]>>
  ELSE <<>>

\* One request handled from arrival to response.
Handle(ep, header, data, up) ==
  LET out == Serve(ep, header, data, clock, up, rate_limit_storage)
  IN  /\ served < MaxRequests
      /\ rate_limit_storage' = out.store
      /\ resp' = [ep |-> ep, header |-> header, data |-> data, r |-> out.resp]
      /\ served' = served + 1
      /\ admitted' = admitted \o Logged(ep, header, data, out.resp, clock)
      /\ UNCHANGED <<clock, threads, probe, build, olm>>

\* The inputs of a request.  An input the handler never reads is fixed at
\* one value: the body and the upstream outcome of a request the decorator
\* rejects, the upstream outcome of a request whose body is invalid.
Rejected(header) == ~require_api_key(header).ok

OcrInputs ==
  {x \in Headers \X OcrBodies \X Upstream :
     /\ Rejected(x[1]) => x[2] = NoBody
     /\ (Rejected(x[1]) \/ ~validate_ocr_request(x[2]).valid) => x[3] = "ok"}

BatchInputs ==
  {x \in Headers \X BatchBodies \X Upstream :
     /\ Rejected(x[1]) => x[2] = NoBatch
     /\ (Rejected(x[1]) \/ ~validate_batch_request(x[2]).valid) => x[3] = "ok"}

OcrRequest ==
  \E x \in OcrInputs : Handle("ocr", x[1], x[2], x[3])

BatchRequest ==
  \E x \in BatchInputs : Handle("batch", x[1], x[2], x[3])

UsageRequest ==
  \E header \in Headers : Handle("usage", header, NoBody, "ok")

Tick ==
  /\ \E t \in Instants : t > clock /\ clock' = t
  /\ UNCHANGED <<rate_limit_storage, resp, served, admitted, threads, probe, build, olm>>

Next == OcrRequest \/ BatchRequest \/ UsageRequest \/ Tick

Spec == Init /\ [][Next]_vars

\* The gateway serving single and usage requests only, one at a time.
NextSingle == OcrRequest \/ UsageRequest \/ Tick

SpecSingle == Init /\ [][NextSingle]_vars

\* GET /health: the route has no key check, so the handler runs whatever
\* the X-API-Key header is.
HealthRequest ==
  \E header \in {<<>>, <<"unknown_key">>, <<ProKey>>}, up \in HealthUpstream :
    /\ served < MaxRequests
    /\ resp' = [ep |-> "health", header |-> header, data |-> NoBody,
                r |-> health(up)]
    /\ served' = served + 1
    /\ UNCHANGED <<rate_limit_storage, clock, admitted, threads, probe, build, olm>>

\* The gateway serving health checks and single requests.
NextHealth == HealthRequest \/ OcrRequest \/ Tick

SpecHealth == Init /\ [][NextHealth]_vars

----------------------------------------------------------------------------
(* The validators on their own: a body is drawn, then the validator runs *)
(* on it once.                                                             *)

\* Lengths of an 'image' string that starts with http:// or https://, and
\* of one that does not.
UrlLens ==
  {7, 8, MAX_URL_LEN - 1, MAX_URL_LEN, MAX_URL_LEN + 1, 2 * MAX_URL_LEN,
   MAX_B64_LEN, MAX_B64_LEN + 1}

DataLens ==
  {0, 1, 6, MAX_URL_LEN, MAX_URL_LEN + 1, MAX_B64_LEN - 1, MAX_B64_LEN,
   MAX_B64_LEN + 1, 2 * MAX_B64_LEN}

\* Bodies given to validate_ocr_request: none (or an empty object), or an
\* object with or without 'prompt' whose 'image' is absent, not a string,
\* or a string.
OcrProbes ==
  {[kind |-> "null", image |-> NoImage, prompt |-> FALSE]} \cup
  {[kind |-> "object", image |-> i, prompt |-> p] :
     i \in {NoImage, NonStr} \cup {Str(TRUE, l) : l \in UrlLens}
            \cup {Str(FALSE, l) : l \in DataLens},
     p \in BOOLEAN}

\* Bodies given to validate_batch_request: none, or an object whose
\* 'images' is absent, a value of length n that is not a list, or a list
\* of n entries.
BatchProbes ==
  {[kind |-> "null", images |-> "absent", n |-> 0],
   [kind |-> "object", images |-> "absent", n |-> 0]} \cup
  {[kind |-> "object", images |-> "other", n |-> n] :
     n \in {0, 1, MAX_BATCH, MAX_BATCH + 1}} \cup
  {[kind |-> "object", images |-> "list", n |-> n] : n \in 0..(2 * MAX_BATCH)}

Probe(fn, data) ==
  [fn |-> fn, data |-> data, done |-> FALSE, valid |-> FALSE, error |-> ""]

InitValidate ==
  /\ rate_limit_storage = <<>>
  /\ clock = 0
  /\ resp = NoResponse
  /\ served = 0
  /\ admitted = <<>>
  /\ threads = [i \in Threads |-> Idle]
  /\ build = NotStarted
  /\ olm = NotLoaded
  /\ probe \in {Probe("validate_ocr_request", d) : d \in OcrProbes} \cup
               {Probe("validate_batch_request", d) : d \in BatchProbes}

Validated(v) ==
  /\ ~probe.done
  /\ probe' = [probe EXCEPT !.done = TRUE, !.valid = v.valid, !.error = v.error]
  /\ UNCHANGED <<rate_limit_storage, clock, resp, served, admitted, threads,
                 build, olm>>

ValidateOcr ==
  /\ probe.fn = "validate_ocr_request"
  /\ Validated(validate_ocr_request(probe.data))

ValidateBatch ==
  /\ probe.fn = "validate_batch_request"
  /\ Validated(validate_batch_request(probe.data))

NextValidate == ValidateOcr \/ ValidateBatch

SpecValidate == InitValidate /\ [][NextValidate]_vars

----------------------------------------------------------------------------
(* The build script (src/scripts/runpod_build_automation.py): main from   *)
(* its first statement to the exit of the process, one action for each    *)
(* call it makes.  raised is the exception in flight when the finally      *)
(* block runs: "SystemExit" after sys.exit(1) and "return" after the       *)
(* return of the SSH failure pass through it, an Exception or a            *)
(* KeyboardInterrupt has been handled by then.  pod is the pod at the      *)
(* provider: "none", "created", "running", "stopped" or "deleted".         *)

PodId == "pod-1"

Step(b) ==
  /\ build' = b
  /\ UNCHANGED <<rate_limit_storage, clock, resp, served, admitted, threads,
                 probe, olm>>

\* except Exception / except KeyboardInterrupt of main: success = False.
Caught(b) == [b EXCEPT !.success = FALSE, !.pc = "finally"]

\* lines 333-338: RUNPOD_API_KEY is set, or the script exits with 1.
CheckEnvironment ==
  /\ build.pc = "start"
  /\ \E set \in BOOLEAN :
       Step(IF set THEN [build EXCEPT !.pc = "keygen"]
            ELSE [build EXCEPT !.pc = "exited", !.exit = <<1>>])

\* lines 355-365: the key pair and its temporary file, or an exception
\* before or after the file exists.
generate_ssh_keypair ==
  /\ build.pc = "keygen"
  /\ \/ Step([build EXCEPT !.private_key_file = TRUE, !.pc = "create"])
     \/ \E written \in BOOLEAN :
          Step(Caught([build EXCEPT !.private_key_file = written]))

\* line 368: create_pod returns the id of the new pod, or exits with 1.
create_pod ==
  /\ build.pc = "create"
  /\ \/ Step([build EXCEPT !.pod_id = <<PodId>>, !.pod = "created",
                            !.pc = "wait"])
     \/ Step([build EXCEPT !.raised = "SystemExit", !.pc = "finally"])

\* lines 125-157: one round of the loop of wait_for_pod.  The request
\* fails (the exception is caught in the loop) or answers with a status
\* and a public IP; the pod is returned when it runs and has an IP.
wait_for_pod_Poll ==
  /\ build.pc = "wait" /\ build.polls < MaxPolls
  /\ \/ Step([build EXCEPT !.polls = @ + 1])
     \/ \E status \in {"CREATED", "RUNNING"}, public_ip \in {"none", "ip"} :
          LET b == [build EXCEPT !.status = status, !.public_ip = public_ip,
                                 !.pod = IF status = "RUNNING" THEN "running" ELSE @]
          IN  Step(IF status = "RUNNING" /\ public_ip = "ip"
                   THEN [b EXCEPT !.waited = "pod", !.pc = "connect"]
                   ELSE [b EXCEPT !.polls = @ + 1])

\* lines 158-161 and 372-374: the timeout has passed.  The prints of the
\* last status raise UnboundLocalError when no poll ever answered;
\* otherwise wait_for_pod returns None and main calls sys.exit(1).
wait_for_pod_GiveUp ==
  /\ build.pc = "wait" /\ build.polls >= MaxPolls
  /\ Step(IF build.status = "unbound"
          THEN Caught([build EXCEPT !.waited = "UnboundLocalError"])
          ELSE [build EXCEPT !.waited = "None", !.raised = "SystemExit",
                             !.pc = "finally"])

\* lines 377-404: the SSH connection, or None and the return of main.
get_ssh_connection ==
  /\ build.pc = "connect"
  /\ \/ Step([build EXCEPT !.ssh = TRUE, !.pc = "build"])
     \/ Step([build EXCEPT !.raised = "return", !.pc = "finally"])

\* lines 407-412: the build succeeds or fails.
execute_build ==
  /\ build.pc = "build"
  /\ \E ok \in BOOLEAN : Step([build EXCEPT !.success = ok, !.pc = "finally"])

\* lines 414-416: the user interrupts a call of the try block.  An
\* interrupt of create_pod leaves it open whether the pod was created.
KeyboardInterrupt ==
  /\ build.pc \in {"keygen", "create", "wait", "connect", "build"}
  /\ \E made \in BOOLEAN :
       /\ made => build.pc = "create"
       /\ Step(Caught([build EXCEPT
                         !.pod = IF made THEN "created" ELSE @,
                         !.waited = IF build.pc = "wait" THEN "KeyboardInterrupt"
                                    ELSE @]))

\* terminate_pod: the stop request, then the delete request; a failure of
\* either is caught and printed.
terminate_pod(b, result) ==
  [b EXCEPT !.terminated = Append(@, b.pod_id[1]),
            !.pod = IF result = "failed" THEN @ ELSE result]

\* Where main goes after its finally block: on with line 438, or out of
\* the process with the pending sys.exit(1) or return.
Leave(b) ==
  CASE b.raised = "SystemExit" -> [b EXCEPT !.pc = "exited", !.exit = <<1>>]
    [] b.raised = "return" -> [b EXCEPT !.pc = "exited", !.exit = <<0>>]
    [] OTHER -> [b EXCEPT !.pc = "after"]

\* The finally block as the message printed on an SSH failure describes
\* it: the pod is left running for a manual build.
Finally_LeavePodOnManual ==
  /\ build.pc = "finally"
  /\ LET b == [build EXCEPT !.ssh = FALSE, !.private_key_file = FALSE]
     IN  IF b.pod_id # <<>> /\ b.raised # "return"
         THEN \E result \in {"deleted", "stopped", "failed"} :
                Step(Leave(terminate_pod(b, result)))
         ELSE Step(Leave(b))

\* lines 422-436: the finally block closes the connection, removes the key
\* file and, if pod_id is set, calls terminate_pod.
Finally ==
  /\ build.pc = "finally"
  /\ LET b == [build EXCEPT !.ssh = FALSE, !.private_key_file = FALSE]
     IN  IF b.pod_id # <<>>
         THEN \E result \in {"deleted", "stopped", "failed"} :
                Step(Leave(terminate_pod(b, result)))
         ELSE Step(Leave(b))

\* lines 438-444: the exit code.
Exit ==
  /\ build.pc = "after"
  /\ Step([build EXCEPT
            !.pc = "exited",
            !.exit = IF ~build.success /\ build.pod_id # <<>> THEN <<0>>
                     ELSE IF build.success THEN <<0>> ELSE <<1>>])

NextBuild ==
  \/ CheckEnvironment
  \/ generate_ssh_keypair
  \/ create_pod
  \/ wait_for_pod_Poll
  \/ wait_for_pod_GiveUp
  \/ get_ssh_connection
  \/ execute_build
  \/ KeyboardInterrupt
  \/ Finally
  \/ Exit

SpecBuild == Init /\ [][NextBuild]_vars

\* The gateway serving OCR requests that carry a registered key and a valid
\* body, against every behaviour of the upstream: besides the outcomes of
\* Upstream, a 200 answer that echoes the request body (an object with no
\* success entry) and a 200 answer whose JSON body is not an object, on
\* which result.get raises inside the try block.
UpstreamAll == Upstream \cup {"echo", "array"}

RelayKeys == {<<ProKey>>, <<FreeKey>>}

RelayBodies ==
  {[kind |-> "object", image |-> i] :
     i \in {Str(TRUE, MAX_URL_LEN), Str(FALSE, MAX_B64_LEN)}}

RelayBatches ==
  {[kind |-> "object", images |-> "list", n |-> n] : n \in 1..(LimitPro + 1)}

OcrRelay ==
  \E header \in RelayKeys, data \in RelayBodies, up \in UpstreamAll :
    Handle("ocr", header, data, up)

BatchRelay ==
  \E header \in RelayKeys, data \in RelayBatches, up \in UpstreamAll :
    Handle("batch", header, data, up)

NextRelay == OcrRelay \/ BatchRelay \/ Tick

SpecRelay == Init /\ [][NextRelay]_vars

\* The gateway serving OCR requests of a key with limit 0 and of the free
\* key, with and without a valid body; the upstream answers.
QuotaKeys == {<<ZeroKey>>, <<FreeKey>>}

QuotaBodies == {NoBody, [kind |-> "object", image |-> Str(TRUE, MAX_URL_LEN)]}

QuotaBatches ==
  {NoBatch} \cup
  {[kind |-> "object", images |-> "list", n |-> n] :
     n \in (1..(LimitFree + 2)) \cup {MAX_BATCH}}

OcrQuota ==
  \E header \in QuotaKeys, data \in QuotaBodies : Handle("ocr", header, data, "ok")

BatchQuota ==
  \E header \in QuotaKeys, data \in QuotaBatches :
    Handle("batch", header, data, "ok")

NextQuota == OcrQuota \/ BatchQuota \/ Tick

SpecQuota == Init /\ [][NextQuota]_vars

\* The gateway on a host whose wall clock is adjusted: time.time() may
\* return an earlier instant than it returned before.
SkewKeys == {<<ProKey>>, <<FreeKey>>}

SkewSizes == {1, 2}

OcrSkew ==
  \E header \in SkewKeys :
    Handle("ocr", header, [kind |-> "object", image |-> Str(TRUE, MAX_URL_LEN)], "ok")

BatchSkew ==
  \E header \in SkewKeys, n \in SkewSizes :
    Handle("batch", header, [kind |-> "object", images |-> "list", n |-> n], "ok")

TickSkew ==
  /\ \E t \in Instants : t # clock /\ clock' = t
  /\ UNCHANGED <<rate_limit_storage, resp, served, admitted, threads, probe, build, olm>>

NextSkew == OcrSkew \/ BatchSkew \/ TickSkew

SpecSkew == Init /\ [][NextSkew]_vars

----------------------------------------------------------------------------
(* The olmOCR server *)

\* The statements of initialize_model that can raise: the import, the
\* loading of the model, its move to the device, the loading of the
\* processor.
InitFailures == {"import", "from_pretrained", "to", "processor"}

Devices == {"cuda", "cpu"}

\* The bodies of a request to /ocr: no JSON body, an object without
\* 'image', an image that cannot be decoded, a good image.
OlmBodies == {"null", "no_image", "bad_image", "image"}

\* initialize_model: it returns at once when model is set; otherwise each
\* global is assigned as soon as its statement has run, and an exception
\* is logged and raised again with the globals as they are.
initialize_model(o, dev, outcome) ==
  IF o.model THEN [o EXCEPT !.init = "skipped"]
  ELSE CASE outcome = "import" -> [o EXCEPT !.init = outcome]
         [] outcome = "from_pretrained" ->
              [o EXCEPT !.device = dev, !.init = outcome]
         [] outcome \in {"to", "processor"} ->
              [o EXCEPT !.device = dev, !.model = TRUE, !.init = outcome]
         [] OTHER ->
              [o EXCEPT !.device = dev, !.model = TRUE, !.processor = TRUE,
                        !.init = "ok"]

OlmAnswer(o, data, status, error) ==
  [o EXCEPT !.requests = @ + 1, !.data = data, !.status = status,
            !.error = error]

\* perform_ocr of the olmOCR server: every exception is answered 500 with
\* its message.
perform_ocr(o, data, dev, outcome, generated) ==
  LET i == IF o.model THEN [o EXCEPT !.init = "skipped"]
           ELSE initialize_model(o, dev, outcome)
  IN  IF i.init \in InitFailures
      THEN OlmAnswer(i, data, 500, "initialize_model")
      ELSE IF data = "null"
      THEN OlmAnswer(i, data, 500, "argument of type 'NoneType' is not iterable")
      ELSE IF data = "no_image"
      THEN OlmAnswer(i, data, 400, "No image data provided")
      ELSE IF data = "bad_image"
      THEN OlmAnswer(i, data, 500, "cannot identify image file")
      ELSE IF ~i.processor
      THEN OlmAnswer(i, data, 500,
             "'NoneType' object has no attribute 'apply_chat_template'")
      ELSE IF ~generated
      THEN OlmAnswer(i, data, 500, "generate")
      ELSE OlmAnswer(i, data, 200, "")

\* GET /health of the olmOCR server: always 200, with the device or
\* 'not_initialized'.
olm_health(o) ==
  [o EXCEPT !.requests = @ + 1, !.init = "none", !.data = "none",
            !.status = 200,
            !.error = IF o.device = "None" THEN "not_initialized" ELSE o.device]

OlmStep(o) ==
  /\ olm.requests < MaxRequests
  /\ olm' = o
  /\ UNCHANGED <<rate_limit_storage, clock, resp, served, admitted, threads,
                 probe, build>>

OlmOcr ==
  \E data \in OlmBodies, dev \in Devices, outcome \in InitFailures \cup {"ok"},
     generated \in BOOLEAN :
    OlmStep(perform_ocr(olm, data, dev, outcome, generated))

OlmHealth == OlmStep(olm_health(olm))

NextOlm == OlmOcr \/ OlmHealth

SpecOlm == Init /\ [][NextOlm]_vars

----------------------------------------------------------------------------
(* The handlers statement by statement: two worker threads serve requests *)
(* that passed the decorator and carry a valid body.  Each action is one   *)
(* statement of check_rate_limit or of the handler that called it; a       *)
(* thread may be preempted between any two of them.  The upstream answers   *)
(* every forwarded request: what it answers changes no shared state.       *)

\* Batch sizes of the interleaved requests.
ConcSizes == {1, 2}

\* Keys of the interleaved requests.
ConcKeys == {ProKey, FreeKey}

\* The instants the clock takes while requests interleave.
ConcInstants == {0, WINDOW - 1, WINDOW}

TickConc ==
  /\ \E t \in ConcInstants : t > clock /\ clock' = t
  /\ UNCHANGED <<rate_limit_storage, resp, served, admitted, threads, probe, build, olm>>

At(i, line) == threads[i].pc = line

Goto(i, line) == threads' = [threads EXCEPT ![i].pc = line]

\* A request arrives and is given to an idle worker.
Arrive(i) ==
  /\ At(i, "idle")
  /\ served < MaxRequests
  /\ \E ep \in {"ocr", "batch"}, k \in ConcKeys, n \in ConcSizes :
       /\ ep = "ocr" => n = 1
       /\ threads' = [threads EXCEPT ![i] =
                        [Idle EXCEPT !.pc = "L90", !.ep = ep, !.key = k, !.n = n]]
  /\ served' = served + 1
  /\ UNCHANGED <<rate_limit_storage, clock, resp, admitted, probe, build, olm>>

\* line 90: now = time.time()
ReadClock(i) ==
  /\ At(i, "L90")
  /\ threads' = [threads EXCEPT ![i].now = clock, ![i].pc = "L94"]
  /\ UNCHANGED <<rate_limit_storage, clock, resp, served, admitted, probe, build, olm>>

\* line 94: if api_key not in rate_limit_storage
TestEntry(i) ==
  /\ At(i, "L94")
  /\ Goto(i, IF threads[i].key \in DOMAIN rate_limit_storage THEN "L98" ELSE "L95")
  /\ UNCHANGED <<rate_limit_storage, clock, resp, served, admitted, probe, build, olm>>

\* line 95: rate_limit_storage[api_key] = []
CreateEntry(i) ==
  /\ At(i, "L95")
  /\ rate_limit_storage' =
       [Ensure(rate_limit_storage, threads[i].key) EXCEPT ![threads[i].key] = <<>>]
  /\ Goto(i, "L98")
  /\ UNCHANGED <<clock, resp, served, admitted, probe, build, olm>>

\* lines 98-101, the right-hand side: the list comprehension is evaluated
PruneRead(i) ==
  /\ At(i, "L98")
  /\ threads' = [threads EXCEPT
                   ![i].tmp = Prune(rate_limit_storage[threads[i].key], threads[i].now),
                   ![i].pc = "L98w"]
  /\ UNCHANGED <<rate_limit_storage, clock, resp, served, admitted, probe, build, olm>>

\* lines 98-101, the assignment: the entry is rebound to the new list
\* (the thread does not use the list it built again)
PruneWrite(i) ==
  /\ At(i, "L98w")
  /\ rate_limit_storage' =
       [rate_limit_storage EXCEPT ![threads[i].key] = threads[i].tmp]
  /\ threads' = [threads EXCEPT ![i].tmp = <<>>, ![i].pc = "L104"]
  /\ UNCHANGED <<clock, resp, served, admitted, probe, build, olm>>

\* line 104: if len(rate_limit_storage[api_key]) >= daily_limit
TestLimit(i) ==
  /\ At(i, "L104")
  /\ Goto(i, IF Len(rate_limit_storage[threads[i].key]) >= DailyLimit(threads[i].key)
             THEN "L105" ELSE "L108")
  /\ UNCHANGED <<rate_limit_storage, clock, resp, served, admitted, probe, build, olm>>

\* line 105: return False, len(rate_limit_storage[api_key]), daily_limit
ReturnDenied(i) ==
  /\ At(i, "L105")
  /\ threads' = [threads EXCEPT
                   ![i].allowed = FALSE,
                   ![i].used = Len(rate_limit_storage[threads[i].key]),
                   ![i].pc = "checked"]
  /\ UNCHANGED <<rate_limit_storage, clock, resp, served, admitted, probe, build, olm>>

\* line 108: rate_limit_storage[api_key].append(now)
Record(i) ==
  /\ At(i, "L108")
  /\ rate_limit_storage' =
       [rate_limit_storage EXCEPT ![threads[i].key] = Append(@, threads[i].now)]
  /\ Goto(i, "L110")
  /\ UNCHANGED <<clock, resp, served, admitted, probe, build, olm>>

\* line 110: return True, len(rate_limit_storage[api_key]), daily_limit
ReturnAllowed(i) ==
  /\ At(i, "L110")
  /\ threads' = [threads EXCEPT
                   ![i].allowed = TRUE,
                   ![i].used = Len(rate_limit_storage[threads[i].key]),
                   ![i].pc = "checked"]
  /\ UNCHANGED <<rate_limit_storage, clock, resp, served, admitted, probe, build, olm>>

\* The request of a thread, as the variable resp records it.
Asked(i) ==
  IF threads[i].ep = "ocr"
  THEN [kind |-> "object", image |-> Str(TRUE, MAX_URL_LEN)]
  ELSE [kind |-> "object", images |-> "list", n |-> threads[i].n]

Answer(i, r) ==
  /\ resp' = [ep |-> threads[i].ep, header |-> <<threads[i].key>>,
              data |-> Asked(i), r |-> r]
  /\ admitted' = admitted \o Logged(threads[i].ep, <<threads[i].key>>, Asked(i),
                                    r, threads[i].now)
  /\ threads' = [threads EXCEPT ![i] = Idle]

\* lines 205-262: the single handler after check_rate_limit returned
FinishSingle(i) ==
  /\ At(i, "checked") /\ threads[i].ep = "ocr"
  /\ LET t == threads[i]
         limit == DailyLimit(t.key)
     IN  IF ~t.allowed
         THEN Answer(i, Response(429, FALSE, "Rate limit exceeded",
                                 Usage(t.used, limit, ""), FALSE))
         ELSE Answer(i, Forward("ok", Asked(i), Usage(t.used, limit, API_KEYS[t.key].tier),
                                "OCR request timed out"))
  /\ UNCHANGED <<rate_limit_storage, clock, served, probe, build, olm>>

\* lines 301-310: the batch handler after check_rate_limit returned
TestBatch(i) ==
  /\ At(i, "checked") /\ threads[i].ep = "batch"
  /\ LET t == threads[i]
         limit == DailyLimit(t.key)
     IN  IF t.used + t.n > limit
         THEN Answer(i, Response(429, FALSE, "Insufficient quota",
                                 Usage(t.used, limit, ""), FALSE))
         ELSE /\ threads' = [threads EXCEPT ![i].left = t.n, ![i].pc = "L314"]
              /\ UNCHANGED <<resp, admitted>>
  /\ UNCHANGED <<rate_limit_storage, clock, served, probe, build, olm>>

\* line 314: rate_limit_storage[request.api_key].append(time.time())
RecordBatch(i) ==
  /\ At(i, "L314") /\ threads[i].left > 0
  /\ rate_limit_storage' =
       [rate_limit_storage EXCEPT ![threads[i].key] = Append(@, clock)]
  /\ threads' = [threads EXCEPT ![i].left = @ - 1]
  /\ UNCHANGED <<clock, resp, served, admitted, probe, build, olm>>

\* lines 316-351: the batch handler after its loop
FinishBatch(i) ==
  /\ At(i, "L314") /\ threads[i].left = 0
  /\ LET t == threads[i]
     IN  Answer(i, Forward("ok", Asked(i), Usage(t.used + t.n, DailyLimit(t.key),
                                       API_KEYS[t.key].tier),
                           "Batch OCR request timed out"))
  /\ UNCHANGED <<rate_limit_storage, clock, served, probe, build, olm>>

NextConc ==
  \/ \E i \in Threads :
       \/ Arrive(i) \/ ReadClock(i) \/ TestEntry(i) \/ CreateEntry(i)
       \/ PruneRead(i) \/ PruneWrite(i) \/ TestLimit(i) \/ ReturnDenied(i)
       \/ Record(i) \/ ReturnAllowed(i) \/ FinishSingle(i) \/ TestBatch(i)
       \/ RecordBatch(i) \/ FinishBatch(i)
  \/ TickConc

SpecConc == Init /\ [][NextConc]_vars

----------------------------------------------------------------------------
(* Vocabulary of the properties *)

\* The step handles one request from arrival to response.
RequestStep == served' = served + 1

\* The header carries a key of the registry.
Registered(header) == header # <<>> /\ header[1] \in DOMAIN API_KEYS

\* The list stored for a key, empty when the key has no entry.
Stored(store, k) == IF k \in DOMAIN store THEN store[k] ELSE <<>>

\* The number of timestamps of a list inside the window that ends at now.
InWindow(list, now) ==
  Cardinality({i \in 1..Len(list) : now - list[i] < WINDOW})

\* The admissions of single requests logged for a key inside the window
\* that ends at now.
SinglesInWindow(log, k, now) ==
  Cardinality({i \in 1..Len(log) :
     log[i].key = k /\ log[i].ep = "ocr" /\ now - log[i].t < WINDOW})

\* The admissions logged for a key.
LoggedFor(log, k) == {i \in 1..Len(log) : log[i].key = k}

----------------------------------------------------------------------------
(* C1: with requests handled one at a time and a clock that never runs    *)
(* back, a key of daily limit N has at most N single requests admitted in  *)
(* any trailing window of 86,400 seconds; a single request is refused with *)
(* 429 exactly when N timestamps are recorded in the window, so the        *)
(* (N+1)th single request of a window is denied and none is refused while  *)
(* fewer than N are recorded.                                              *)
C1_DailyLimit ==
  [][/\ \A k \in DOMAIN API_KEYS :
          SinglesInWindow(admitted', k, clock') <= API_KEYS[k].daily_limit
     /\ (RequestStep /\ resp'.ep = "ocr" /\ Registered(resp'.header)) =>
          LET k == resp'.header[1]
              N == API_KEYS[k].daily_limit
          IN  /\ (resp'.r.status = 429) <=>
                   (InWindow(Stored(rate_limit_storage, k), clock) >= N)
              /\ SinglesInWindow(admitted, k, clock) = N =>
                   resp'.r.status = 429
              /\ resp'.r.status = 429 =>
                   resp'.r.usage.requests_used = N]_vars

\* The third single request of a window is denied after two were admitted.
C1_Witness ==
  /\ resp.ep = "ocr" /\ resp.header = <<ProKey>> /\ resp.r.status = 429
  /\ SinglesInWindow(admitted, ProKey, clock) = API_KEYS[ProKey].daily_limit
  /\ API_KEYS[ProKey].daily_limit >= 2

----------------------------------------------------------------------------
\* A valid batch body: a list of 1 to 10 images.
ValidBatch(data) ==
  data.kind = "object" /\ data.images = "list" /\ data.n >= 1 /\ data.n <= 10

\* The step handles a valid batch request made with a registered key.
BatchStep ==
  RequestStep /\ resp'.ep = "batch" /\ Registered(resp'.header)
    /\ ValidBatch(resp'.data)

\* The step handles a single request made with a registered key.
SingleStep == RequestStep /\ resp'.ep = "ocr" /\ Registered(resp'.header)

\* The in-window count of the key of the request, before and after the step.
UsedBefore == InWindow(Stored(rate_limit_storage, resp'.header[1]), clock)

UsedAfter == InWindow(Stored(rate_limit_storage', resp'.header[1]), clock)

(* C3: a valid batch request of k images on a registered key is admitted  *)
(* if and only if used + k <= limit, used being the in-window count       *)
(* before the request; it is answered 429 exactly when limit - used < k.  *)
C3_BatchAdmittedIff ==
  [][BatchStep =>
       LET k == resp'.data.n
           limit == API_KEYS[resp'.header[1]].daily_limit
       IN  (resp'.r.status # 429) <=> (UsedBefore + k <= limit)]_vars

(* C4: an admitted batch request of k images adds exactly k timestamps to *)
(* its key and reports requests_used = used + k.                          *)
C4_BatchAddsK ==
  [][(BatchStep /\ resp'.r.status # 429) =>
       LET k == resp'.data.n
       IN  /\ UsedAfter = UsedBefore + k
           /\ resp'.r.usage.present =>
                resp'.r.usage.requests_used = UsedBefore + k]_vars

(* C5: a request denied for quota (429), single or batch, records         *)
(* nothing: the in-window count of its key is the same after it as before. *)
C5_DeniedRecordsNothing ==
  [][(RequestStep /\ resp'.r.status = 429) => UsedAfter = UsedBefore]_vars

----------------------------------------------------------------------------
(* C6: a timestamp t stops counting as soon as the clock reaches          *)
(* t + 86,400.  A request that reaches the rate limiter leaves no such     *)
(* entry in the list of its key; a single request is refused exactly when *)
(* the entries younger than 86,400 seconds fill the limit; a batch is not  *)
(* refused when those entries and its images stay below the limit; the     *)
(* usage report counts only those entries.                                 *)
C6_ExpiryAtWindow ==
  [][(RequestStep /\ Registered(resp'.header)) =>
       LET k == resp'.header[1]
           limit == API_KEYS[k].daily_limit
           after == Stored(rate_limit_storage', k)
       IN  /\ (resp'.ep = "ocr" \/ (resp'.ep = "batch" /\ ValidBatch(resp'.data))) =>
                \A i \in 1..Len(after) : clock - after[i] < WINDOW
           /\ resp'.ep = "ocr" =>
                ((resp'.r.status = 429) <=> (UsedBefore >= limit))
           /\ (resp'.ep = "batch" /\ ValidBatch(resp'.data)) =>
                /\ UsedBefore + resp'.data.n < limit => resp'.r.status # 429
                /\ UsedBefore + resp'.data.n > limit => resp'.r.status = 429
           /\ resp'.ep = "usage" =>
                resp'.r.usage.requests_used = UsedBefore
           /\ resp'.r.status = 429 =>
                resp'.r.usage.requests_used <= UsedAfter]_vars

\* A key whose limit was used up is admitted again, with one unit in use,
\* exactly 86,400 seconds after its admissions.
C6_Witness ==
  /\ resp.ep = "ocr" /\ resp.header = <<FreeKey>> /\ resp.r.status = 200
  /\ resp.r.usage.requests_used = 1
  /\ Cardinality({i \in LoggedFor(admitted, FreeKey) :
                    clock - admitted[i].t = WINDOW})
       = API_KEYS[FreeKey].daily_limit
  /\ rate_limit_storage[FreeKey] = <<clock>>

(* C7: a batch request whose body fails validation (no body, no 'images', *)
(* not a list, an empty list, more than 10 entries) is answered 400        *)
(* without the rate limiter being asked: rate_limit_storage is unchanged   *)
(* and the upstream is not contacted.                                      *)
C7_InvalidBatchTouchesNothing ==
  [][(RequestStep /\ resp'.ep = "batch" /\ Registered(resp'.header)
        /\ ~ValidBatch(resp'.data)) =>
       /\ resp'.r.status = 400
       /\ rate_limit_storage' = rate_limit_storage
       /\ ~resp'.r.upstream]_vars

\* A batch of 11 images on a key that holds quota is answered 400.
C7_Witness ==
  /\ resp.ep = "batch" /\ resp.header = <<ProKey>>
  /\ resp.data.images = "list" /\ resp.data.n = MAX_BATCH + 1
  /\ resp.r.status = 400 /\ resp.r.error = "Maximum 10 images per batch"
  /\ Len(Stored(rate_limit_storage, ProKey)) = 1

(* C8: on the three protected endpoints a request with no or an empty     *)
(* X-API-Key is answered 401 and one whose key is not in the registry 403; *)
(* rate_limit_storage is unchanged, holds no entry for the presented key   *)
(* and the upstream is not contacted.                                      *)
C8_AuthRejectsBeforeHandler ==
  [][(RequestStep /\ resp'.ep \in Endpoints /\ ~Registered(resp'.header)) =>
       /\ resp'.r.status =
            IF resp'.header = <<>> \/ resp'.header[1] = "" THEN 401 ELSE 403
       /\ rate_limit_storage' = rate_limit_storage
       /\ resp'.header # <<>> => resp'.header[1] \notin DOMAIN rate_limit_storage'
       /\ ~resp'.r.upstream
       /\ ~resp'.r.success]_vars

\* An unknown key is answered 403 while another key holds quota.
C8_Witness ==
  /\ resp.ep = "batch" /\ resp.header = <<"unknown_key">>
  /\ resp.r.status = 403
  /\ DOMAIN rate_limit_storage = {ProKey}

(* C9: quota is consumed at admission and never given back: after an      *)
(* admitted single request the window of its key holds one timestamp more, *)
(* after an admitted batch request of k images at least k more, whatever   *)
(* the upstream call did (answer, timeout answered 504, failure answered   *)
(* 500).                                                                   *)
C9_NoRefund ==
  [][(RequestStep /\ Registered(resp'.header)) =>
       /\ (resp'.ep = "ocr" /\ resp'.r.status \notin {429}) =>
            UsedAfter = UsedBefore + 1
       /\ (resp'.ep = "batch" /\ resp'.r.status \notin {400, 429}) =>
            UsedAfter >= UsedBefore + resp'.data.n
       /\ (resp'.ep \in {"ocr", "batch"} /\ resp'.r.upstream) =>
            /\ resp'.r.status \in {200, 503, 504, 500}
            /\ UsedAfter > UsedBefore]_vars

\* A single request timed out upstream and its unit is still recorded.
C9_Witness ==
  /\ resp.ep = "ocr" /\ resp.header = <<ProKey>> /\ resp.r.status = 504
  /\ resp.r.error = "OCR request timed out"
  /\ rate_limit_storage[ProKey] = <<clock>>

----------------------------------------------------------------------------
(* C10: when n single requests have been admitted for a key, none of them *)
(* has expired and nothing else was recorded for the key, GET              *)
(* /api/v1/usage with the key returns requests_used = n, daily_limit = the *)
(* key's limit and requests_remaining = limit - n.                         *)
C10_UsageAfterSingles ==
  [][(RequestStep /\ resp'.ep = "usage" /\ Registered(resp'.header)) =>
       LET k == resp'.header[1]
           n == Cardinality(LoggedFor(admitted, k))
           limit == API_KEYS[k].daily_limit
       IN  (\A i \in LoggedFor(admitted, k) : clock - admitted[i].t < WINDOW) =>
             /\ resp'.r.status = 200
             /\ resp'.r.usage.present
             /\ resp'.r.usage.requests_used = n
             /\ resp'.r.usage.daily_limit = limit
             /\ resp'.r.usage.requests_remaining = limit - n]_vars

\* The usage report after two admitted single requests, none expired.
C10_Witness ==
  /\ resp.ep = "usage" /\ resp.header = <<ProKey>>
  /\ Cardinality(LoggedFor(admitted, ProKey)) = 2
  /\ \A i \in LoggedFor(admitted, ProKey) : clock - admitted[i].t < WINDOW
  /\ resp.r.usage.requests_used = 2
  /\ resp.r.usage.requests_remaining = API_KEYS[ProKey].daily_limit - 2

----------------------------------------------------------------------------
(* C2: under any interleaving of concurrent requests that use the same    *)
(* key, the timestamps recorded for the key inside the trailing window     *)
(* never exceed the key's daily limit.                                     *)
C2_NeverOverLimit ==
  \A k \in DOMAIN API_KEYS :
    InWindow(Stored(rate_limit_storage, k), clock) <= API_KEYS[k].daily_limit

----------------------------------------------------------------------------
(* C11: GET /api/v1/usage is read-only.  A usage request, whatever its    *)
(* key, leaves rate_limit_storage as it was: no timestamp is appended, no  *)
(* expired timestamp is evicted and no entry is created.  With a           *)
(* registered key the requests_used it reports is the count that           *)
(* check_rate_limit computes at the same instant before it records         *)
(* anything: the entries of the key younger than 86,400 seconds.           *)
C11_UsageReadOnly ==
  [][(RequestStep /\ resp'.ep = "usage") =>
       /\ rate_limit_storage' = rate_limit_storage
       /\ Registered(resp'.header) =>
            LET k == resp'.header[1]
                rl == check_rate_limit(rate_limit_storage, k, clock)
            IN  /\ resp'.r.status = 200
                /\ resp'.r.usage.requests_used =
                     IF rl.allowed THEN rl.used - 1 ELSE rl.used
                /\ resp'.r.usage.requests_used =
                     Len(Prune(Stored(rate_limit_storage, k), clock))]_vars

\* A usage report that counts one of the two stored timestamps of its key
\* (the other has expired and stays stored), while the other key, which
\* never made an OCR request, has no entry.
C11_Witness ==
  /\ resp.ep = "usage" /\ resp.header = <<ProKey>>
  /\ resp.r.usage.requests_used = 1
  /\ Len(Stored(rate_limit_storage, ProKey)) = 2
  /\ DOMAIN rate_limit_storage = {ProKey}

----------------------------------------------------------------------------
(* C14: keys are isolated.  A request made with key A, whatever its        *)
(* endpoint and its outcome (admitted, denied, invalid, timed out,         *)
(* failed), leaves the entry of every other key B as it was: the same      *)
(* list, or no entry still.  A request that presents no registered key     *)
(* changes the entry of no key.                                            *)
C14_KeysIsolated ==
  [][RequestStep =>
       \A b \in DOMAIN API_KEYS :
         (resp'.header = <<>> \/ resp'.header[1] # b) =>
           /\ (b \in DOMAIN rate_limit_storage') <=> (b \in DOMAIN rate_limit_storage)
           /\ Stored(rate_limit_storage', b) = Stored(rate_limit_storage, b)]_vars

\* A single request on one key is admitted while the other key still holds
\* a timestamp that has expired: the expired timestamp stays where it was.
C14_Witness ==
  /\ resp.ep = "ocr" /\ resp.header = <<FreeKey>> /\ resp.r.status = 200
  /\ rate_limit_storage[FreeKey] = <<clock>>
  /\ Len(Stored(rate_limit_storage, ProKey)) = 1
  /\ InWindow(Stored(rate_limit_storage, ProKey), clock) = 0

----------------------------------------------------------------------------
\* The step handles an OCR request, single or batch, that was forwarded to
\* the upstream.
ForwardedStep == RequestStep /\ resp'.ep \in {"ocr", "batch"} /\ resp'.r.upstream

\* The timed-out message of each endpoint.
TimedOutMessage(ep) ==
  IF ep = "ocr" THEN "OCR request timed out" ELSE "Batch OCR request timed out"

(* C16: for an admitted, valid request the outcome of the upstream call    *)
(* decides the response class.  A timeout is answered 504 with the         *)
(* timed-out message of the endpoint; any other failure of the call (a     *)
(* connection error, a body that cannot be used) is answered 500 with the  *)
(* fixed message 'Internal server error' and a body of the gateway's own,  *)
(* nothing of the upstream in it; an upstream status is relayed only when  *)
(* the call completed.  Every request that is neither rejected for its     *)
(* body (400) nor denied (429) is forwarded.                               *)
C16_OutcomeDecidesClass ==
  [][(RequestStep /\ resp'.ep \in {"ocr", "batch"}) =>
       LET r == resp'.r
       IN  /\ r.upstream <=> r.status \notin {400, 429}
           /\ r.upstream <=> r.outcome # "none"
           /\ r.outcome = "timeout" =>
                /\ r.status = 504 /\ r.success = FALSE
                /\ r.error = TimedOutMessage(resp'.ep)
                /\ r.body = OwnBody /\ ~r.usage.present
           /\ r.outcome \in {"error", "array"} =>
                /\ r.status = 500 /\ r.success = FALSE
                /\ r.error = "Internal server error"
                /\ r.body = OwnBody /\ ~r.usage.present
           /\ r.outcome \in Answers =>
                /\ r.status = UpstreamAnswer(r.outcome, resp'.data).status
                /\ r.body # OwnBody
           /\ r.body # OwnBody => r.outcome \in Answers]_vars

\* A batch request that timed out upstream, answered 504.
C16_Witness ==
  /\ resp.ep = "batch" /\ resp.r.outcome = "timeout"
  /\ resp.r.status = 504 /\ resp.r.error = "Batch OCR request timed out"
  /\ InWindow(Stored(rate_limit_storage, resp.header[1]), clock) > resp.data.n

----------------------------------------------------------------------------
(* C12 as stated: for every admitted, valid request whose upstream call    *)
(* returns a parsable response, the gateway answers with the upstream's    *)
(* status code and the upstream's body, and a usage block is added.        *)
C12_RelayedWithUsage ==
  [][(ForwardedStep /\ resp'.r.outcome \in Answers \cup {"array"}) =>
       LET a == UpstreamAnswer(resp'.r.outcome, resp'.data)
       IN  /\ resp'.r.status = a.status
           /\ resp'.r.body = a.body
           /\ resp'.r.usage.present]_vars

(* C12, amended: for every admitted, valid request whose upstream call     *)
(* returns a JSON object, the gateway answers with the upstream's status   *)
(* code and the upstream's body (success and error entries included); the  *)
(* usage block is added exactly when the success entry of that body is     *)
(* true, and then it reports the count recorded for the key after the      *)
(* admission and the key's limit and tier.  A stub upstream that echoes    *)
(* the request body back yields that body with no usage block.             *)
C12_RelayedUsageOnSuccess ==
  [][(ForwardedStep /\ resp'.r.outcome \in Answers) =>
       LET a == UpstreamAnswer(resp'.r.outcome, resp'.data)
           r == resp'.r
           k == resp'.header[1]
       IN  /\ r.status = a.status
           /\ r.body = a.body
           /\ r.error = a.error
           /\ IF a.success = <<>> THEN r.success = "absent"
              ELSE r.success = a.success[1]
           /\ r.usage.present <=> a.success = <<TRUE>>
           /\ r.usage.present =>
                /\ r.usage.requests_used = UsedAfter
                /\ r.usage.daily_limit = API_KEYS[k].daily_limit
                /\ r.usage.tier = API_KEYS[k].tier
           /\ r.outcome = "echo" => (r.body = resp'.data /\ r.status = 200)]_vars

\* The echoed body of a single request comes back with no usage block.
C12_Witness ==
  /\ resp.ep = "ocr" /\ resp.r.outcome = "echo"
  /\ resp.r.status = 200 /\ resp.r.body = resp.data
  /\ ~resp.r.usage.present
  /\ rate_limit_storage[resp.header[1]] = <<clock>>

----------------------------------------------------------------------------
\* The step answers a request with an error status.
ErrorStep == RequestStep /\ resp'.r.status >= 400

(* C13 as stated: every error response carries success=false and an error *)
(* string, and every 429 or 400 answered after authentication succeeded    *)
(* also carries the usage block, on the single and on the batch endpoint.  *)
C13_ErrorsCarryUsage ==
  [][ErrorStep =>
       /\ resp'.r.success = FALSE
       /\ resp'.r.error # ""
       /\ (Registered(resp'.header) /\ resp'.r.status \in {400, 429}) =>
            resp'.r.usage.present]_vars

(* C13, amended: every error response carries success=false and an error *)
(* string.  Of the error responses only the quota denial (429) carries the *)
(* usage block, with the count of the key and its limit; the validation    *)
(* error (400) carries none, like 401, 403, 504, 500 and a relayed         *)
(* upstream error, on the single and on the batch endpoint.                *)
C13_ErrorsUsageOn429Only ==
  [][ErrorStep =>
       /\ resp'.r.success = FALSE
       /\ resp'.r.error # ""
       /\ resp'.r.usage.present <=> resp'.r.status = 429
       /\ resp'.r.status = 429 =>
            /\ Registered(resp'.header)
            /\ resp'.r.usage.daily_limit = API_KEYS[resp'.header[1]].daily_limit
            /\ resp'.r.usage.requests_used = UsedAfter
       /\ resp'.r.status = 400 =>
            (Registered(resp'.header) /\ resp'.ep \in {"ocr", "batch"})]_vars

\* A single request with a registered key and no 'image' field is answered
\* 400 with its reason and no usage block.
C13_Witness ==
  /\ resp.ep = "ocr" /\ resp.header = <<FreeKey>>
  /\ resp.r.status = 400 /\ resp.r.error = "Missing 'image' field"
  /\ resp.r.success = FALSE /\ ~resp.r.usage.present

----------------------------------------------------------------------------
(* C20: on POST /api/v1/ocr the consumption of a quota unit is recorded    *)
(* only after the validator has passed and the request has been handed to  *)
(* the proxy: the window of the key grows only in a step that forwards the *)
(* request to the upstream, and a single request that the validator        *)
(* rejects with 400 leaves the stored window of its key unchanged.         *)
C20_RecordedAfterValidation ==
  [][SingleStep =>
       /\ UsedAfter > UsedBefore => resp'.r.upstream
       /\ resp'.r.status = 400 =>
            /\ UsedAfter = UsedBefore
            /\ Stored(rate_limit_storage', resp'.header[1])
                 = Stored(rate_limit_storage, resp'.header[1])]_vars

----------------------------------------------------------------------------
(* C15: GET /health needs no API key and answers 200 with status 'ok' for *)
(* every behaviour of the upstream (unreachable, timed out, an answer      *)
(* other than 200, a 200 answer).  ocr_backend is the status that the      *)
(* upstream reports when it answers 200 and 'error' when it does not       *)
(* answer 200; rate_limit_storage is unchanged.                            *)
C15_HealthAlwaysOk ==
  [][(RequestStep /\ resp'.ep = "health") =>
       LET r == resp'.r
       IN  /\ r.status = 200
           /\ r.body.kind = "health" /\ r.body.status = "ok"
           /\ r.outcome \in {"unreachable", "timeout", "non200"} =>
                r.body.ocr_backend = "error"
           /\ r.outcome = "ok" => r.body.ocr_backend = "ok"
           /\ r.outcome = "loading" => r.body.ocr_backend = "error"
           /\ rate_limit_storage' = rate_limit_storage]_vars

----------------------------------------------------------------------------
(* C17: validate_ocr_request accepts a body if and only if it has an       *)
(* 'image' field that is a string which either starts with http:// or      *)
(* https:// and has at most 2048 characters, or does not start so and has  *)
(* at most 15*1024*1024 characters.  A missing field, an image that is not *)
(* a string, a URL that is too long and a payload that is too large are    *)
(* each rejected with a reason of their own; no body at all is rejected    *)
(* with a fifth one.                                                       *)
C17_OcrAcceptedIff ==
  (probe.fn = "validate_ocr_request" /\ probe.done) =>
    LET d == probe.data
        i == d.image
        has == d.kind = "object" /\ i.type # "absent"
        str == has /\ i.type = "str"
        ok == str /\ IF i.url THEN i.len <= 2048 ELSE i.len <= 15 * 1024 * 1024
    IN  /\ probe.valid <=> ok
        /\ probe.valid => probe.error = ""
        /\ d.kind = "null" => probe.error = "No JSON data provided"
        /\ (d.kind = "object" /\ ~has) => probe.error = "Missing 'image' field"
        /\ (has /\ ~str) => probe.error = "Invalid image format"
        /\ (str /\ i.url /\ i.len > 2048) => probe.error = "Image URL too long"
        /\ (str /\ ~i.url /\ i.len > 15 * 1024 * 1024) =>
             probe.error = "Image data too large"

\* A URL of 4096 characters is refused as a URL although a payload of that
\* length would pass.
C17_Witness ==
  /\ probe.fn = "validate_ocr_request" /\ probe.done
  /\ probe.data.image = Str(TRUE, 2 * MAX_URL_LEN)
  /\ ~probe.valid /\ probe.error = "Image URL too long"

(* C18: validate_batch_request accepts a body if and only if it has an     *)
(* 'images' field that is a list of 1 to 10 entries.  A missing field, a   *)
(* value that is not a list, an empty list and a list of more than 10      *)
(* entries are rejected, tested in that order, each with a reason of its   *)
(* own: a value that is not a list is refused for its type whatever its    *)
(* length.                                                                 *)
C18_BatchAcceptedIff ==
  (probe.fn = "validate_batch_request" /\ probe.done) =>
    LET d == probe.data
        has == d.kind = "object" /\ d.images # "absent"
        list == has /\ d.images = "list"
    IN  /\ probe.valid <=> (list /\ d.n >= 1 /\ d.n <= 10)
        /\ probe.valid => probe.error = ""
        /\ d.kind = "null" => probe.error = "No JSON data provided"
        /\ (d.kind = "object" /\ ~has) => probe.error = "Missing 'images' field"
        /\ (has /\ ~list) => probe.error = "'images' must be an array"
        /\ (list /\ d.n = 0) => probe.error = "Empty images array"
        /\ (list /\ d.n > 10) => probe.error = "Maximum 10 images per batch"

\* A value of length 11 that is not a list is refused for its type, not for
\* its length.
C18_Witness ==
  /\ probe.fn = "validate_batch_request" /\ probe.done
  /\ probe.data.images = "other" /\ probe.data.n = MAX_BATCH + 1
  /\ probe.error = "'images' must be an array"

----------------------------------------------------------------------------
----------------------------------------------------------------------------
\* The quota units of the admissions logged for a key whose timestamp is
\* inside the window that ends at now.
UnitsInWindow(log, k, now) ==
  Cardinality({x \in (1..Len(log)) \X (1..MAX_BATCH) :
     /\ log[x[1]].key = k
     /\ x[2] <= log[x[1]].cost
     /\ now - log[x[1]].t < WINDOW})

(* C21: the prune-count-append sequence of check_rate_limit, and the check *)
(* followed by the append loop of the batch handler, is atomic with        *)
(* respect to concurrent requests on the same key.  In every interleaving  *)
(* the timestamps of each admitted request stay in the window of its key   *)
(* until they expire: the window of a key holds at least as many           *)
(* unexpired timestamps as the units of the requests answered as admitted  *)
(* whose time of admission has not expired.                                *)
C21_AdmittedStayRecorded ==
  \A k \in DOMAIN API_KEYS :
    InWindow(Stored(rate_limit_storage, k), clock)
      >= UnitsInWindow(admitted, k, clock)

----------------------------------------------------------------------------
\* A valid body of POST /api/v1/ocr.
ValidSingle(data) ==
  /\ data.kind = "object" /\ data.image.type = "str"
  /\ IF data.image.url THEN data.image.len <= MAX_URL_LEN
     ELSE data.image.len <= MAX_B64_LEN

----------------------------------------------------------------------------
(* C23: a key whose limit is 0 is denied on every single and batch         *)
(* request: a single request and a valid batch request are answered 429    *)
(* (a batch whose body is invalid is answered 400 before the limit is      *)
(* looked at), the upstream is not contacted and nothing is recorded.  A   *)
(* valid batch whose size k exceeds the limit of its key is answered 429   *)
(* whatever the window of the key holds.                                   *)
C23_ZeroLimitAndOversize ==
  [][(RequestStep /\ resp'.ep \in {"ocr", "batch"} /\ Registered(resp'.header)) =>
       LET k == resp'.header[1]
           limit == API_KEYS[k].daily_limit
           r == resp'.r
       IN  /\ limit = 0 =>
                /\ r.status = IF resp'.ep = "batch" /\ ~ValidBatch(resp'.data)
                               THEN 400 ELSE 429
                /\ ~r.upstream
                /\ Len(Stored(rate_limit_storage', k)) = 0
                /\ r.status = 429 =>
                     (r.usage.requests_used = 0 /\ r.usage.daily_limit = 0)
           /\ (resp'.ep = "batch" /\ ValidBatch(resp'.data)
                 /\ resp'.data.n > limit) =>
                (r.status = 429 /\ ~r.upstream)]_vars

\* A valid single request with the key of limit 0 is answered 429 with
\* requests_used 0 of 0.
C23_Witness ==
  /\ resp.ep = "ocr" /\ resp.header = <<ZeroKey>> /\ ValidSingle(resp.data)
  /\ resp.r.status = 429 /\ resp.r.usage.daily_limit = 0
  /\ rate_limit_storage[ZeroKey] = <<>>

----------------------------------------------------------------------------
\* The number of times t occurs in a list.
Occurrences(list, t) == Cardinality({i \in 1..Len(list) : list[i] = t})

(* C24: when the clock has moved backward, so that a recorded timestamp t  *)
(* is later than now, an admission check keeps that entry and counts it:   *)
(* every entry of the key with now - t < 86,400, a negative age included,  *)
(* is still in the list of the key after the request, at its place, and a  *)
(* single request is refused exactly when those entries fill the limit.    *)
C24_BackwardClockKeeps ==
  [][(RequestStep /\ resp'.ep \in {"ocr", "batch"} /\ Registered(resp'.header)) =>
       LET k == resp'.header[1]
           before == Stored(rate_limit_storage, k)
           after == Stored(rate_limit_storage', k)
           young == {i \in 1..Len(before) : clock - before[i] < WINDOW}
       IN  /\ \A i \in young :
                Occurrences(after, before[i]) >= Occurrences(before, before[i])
           /\ \A i \in 1..Len(before) : before[i] > clock => i \in young
           /\ Len(after) >= Cardinality(young)
           /\ \A i \in 1..Cardinality(young) :
                clock - after[i] < WINDOW /\ Occurrences(before, after[i]) > 0
           /\ resp'.ep = "ocr" =>
                ((resp'.r.status = 429) <=>
                   (Cardinality(young) >= API_KEYS[k].daily_limit))]_vars

\* A single request served after the clock went back a whole window: the
\* entry recorded at the later instant is kept and the key is at its limit.
C24_Witness ==
  /\ clock = 0 /\ resp.ep = "ocr" /\ resp.header = <<FreeKey>>
  /\ resp.r.status = 429
  /\ rate_limit_storage[FreeKey] = <<WINDOW>>
  /\ Len(admitted) = 1 /\ admitted[1].t = WINDOW

----------------------------------------------------------------------------
(* C25: denial is not permanent.  With requests handled one at a time, a   *)
(* single request on a key of limit > 0 is admitted (not answered 429)     *)
(* whenever at least one timestamp stored for the key is 86,400 seconds    *)
(* old or more at that instant, whatever was answered to the key before,   *)
(* a 429 included; the admission drops the expired timestamps and records  *)
(* the request.                                                            *)
C25_DenialNotPermanent ==
  [][SingleStep =>
       LET k == resp'.header[1]
           before == Stored(rate_limit_storage, k)
           after == Stored(rate_limit_storage', k)
       IN  (/\ API_KEYS[k].daily_limit > 0
            /\ \E i \in 1..Len(before) : clock - before[i] >= WINDOW) =>
             /\ resp'.r.status # 429
             /\ resp'.r.upstream
             /\ Len(after) <= Len(before)
             /\ after[Len(after)] = clock]_vars

\* The free key was admitted, then denied, and is admitted again one window
\* later: all requests were made with that key and one of them was denied.
C25_Witness ==
  /\ clock = WINDOW
  /\ resp.ep = "ocr" /\ resp.header = <<FreeKey>> /\ resp.r.status = 200
  /\ DOMAIN rate_limit_storage = {FreeKey}
  /\ rate_limit_storage[FreeKey] = <<WINDOW>>
  /\ served = API_KEYS[FreeKey].daily_limit + 2
  /\ Len(admitted) = API_KEYS[FreeKey].daily_limit + 1
  /\ \A i \in 1..(Len(admitted) - 1) : admitted[i].t = 0 /\ admitted[i].cost = 1

----------------------------------------------------------------------------
(* C26: with requests handled one at a time, whatever mix of single,       *)
(* batch and usage requests was served (valid or not, admitted or denied), *)
(* the list stored for a key never holds more timestamps than the daily    *)
(* limit of the key, expired ones included, and the requests_remaining of  *)
(* a usage report is never negative.                                       *)
C26_StoredWithinLimit ==
  /\ \A k \in DOMAIN rate_limit_storage :
        /\ k \in DOMAIN API_KEYS
        /\ Len(rate_limit_storage[k]) <= API_KEYS[k].daily_limit
  /\ (resp.ep = "usage" /\ Registered(resp.header)) =>
        /\ resp.r.usage.requests_remaining >= 0
        /\ resp.r.usage.requests_remaining =
             API_KEYS[resp.header[1]].daily_limit - resp.r.usage.requests_used

\* A usage report of 0 remaining after an admitted batch filled the limit.
C26_Witness ==
  /\ resp.ep = "usage" /\ resp.header = <<ProKey>>
  /\ resp.r.usage.requests_remaining = 0
  /\ Len(Stored(rate_limit_storage, ProKey)) = API_KEYS[ProKey].daily_limit
  /\ \E i \in 1..Len(admitted) : admitted[i].ep = "batch" /\ admitted[i].key = ProKey

----------------------------------------------------------------------------
(* C27: when get_ssh_connection fails (returns None), main enters the      *)
(* manual-build mode and leaves the pod running: the process exits with    *)
(* status 0 and terminate_pod was not called for the pod.                  *)
C27_ManualModeLeavesPod ==
  (build.pc = "exited" /\ build.raised = "return") =>
    /\ build.exit = <<0>>
    /\ build.terminated = <<>>
    /\ build.pod = "running"

----------------------------------------------------------------------------
(* C28: the build script exits with a non-zero status whenever a pod was   *)
(* created and the Docker build did not succeed (execute_build returned    *)
(* False, or an exception was raised after the pod was created); status 0  *)
(* comes only from a successful build or from the return of the            *)
(* SSH-failure path.                                                       *)
C28_FailedBuildExitsNonZero ==
  build.pc = "exited" =>
    /\ (build.pod_id # <<>> /\ ~build.success /\ build.raised # "return") =>
         build.exit # <<0>>
    /\ build.exit = <<0>> => (build.success \/ build.raised = "return")

----------------------------------------------------------------------------
(* C29: wait_for_pod finishes in one of two ways and never raises: it      *)
(* returns the pod record only when a poll reported the status RUNNING     *)
(* together with a public IP, and it returns None once the timeout has     *)
(* passed, also when every poll failed with an exception.                  *)
C29_WaitReturnsPodOrNone ==
  /\ build.waited \in {"pending", "pod", "None", "KeyboardInterrupt"}
  /\ build.waited = "pod" => (build.status = "RUNNING" /\ build.public_ip = "ip")
  /\ build.waited = "None" => build.polls >= MaxPolls

----------------------------------------------------------------------------
(* C30: in the olmOCR server lazy initialisation is all-or-nothing.  After *)
(* any sequence of /ocr requests, those during which initialize_model      *)
(* raised part-way included, the global model is set only if the           *)
(* processor is set too, so a request that follows a failed initialisation *)
(* runs the initialisation again and none runs without a processor.        *)
C30_InitAllOrNothing ==
  /\ olm.model => olm.processor
  /\ olm.init = "skipped" => olm.processor
  /\ (olm.init \in InitFailures) => ~olm.model

====
